---- MODULE Spec2Model ----
(***************************************************************************)
(* PanelFrontend (lightning_app/frontend/panel/panel_frontend.py): the     *)
(* launcher that serves Panel code through one child process.  The model   *)
(* holds the launcher object's attributes, the log file handles it has     *)
(* opened, the child processes it has spawned, and the outcome of the      *)
(* most recent call.                                                       *)
(*                                                                         *)
(* The `requires("panel")` guard of the constructor is taken to pass: the  *)
(* panel package is installed.                                             *)
(***************************************************************************)
EXTENDS Integers, Sequences, FiniteSets, TLC

\* ------------------------------------------------------------------ bounds
\* the number of child processes the launcher may spawn in one behaviour
MaxProcs == 2
\* the number of log file handles the launcher may open in one behaviour
MaxFiles == 4
\* the number of file handles in the states _close_log_files is called from
MaxHandles == 3

\* ------------------------------------------------------------- the inputs
\* hosts and ports handed to start_server
Hosts == {"127.0.0.1", "0.0.0.0"}
Ports == {9000, 8080}
\* the host and port of the calls whose arguments are not looked at
ExampleHost == "127.0.0.1"
ExamplePort == 9000

\* the name of the flow the frontend is attached to (self.flow.name)
flow_name == "root.lit_panel"

\* A path string is the sequence of its "/"-separated components; an
\* absolute path starts with the component "/".
\* server_entry_point arguments: a pure function, a bound method, and paths.
\* For a path, `path` is the string given; for a callable it is the file
\* that defines the callable.
EntryPoints ==
    { [kind |-> "function", path |-> <<"/", "srv", "panel_fn.py">>],
      [kind |-> "method",   path |-> <<"/", "srv", "panel_fn.py">>],
      [kind |-> "path",     path |-> <<"panel_app_basic.py">>],
      [kind |-> "path",     path |-> <<".", "apps", "..", "panel_app_basic.py">>],
      [kind |-> "path",     path |-> <<"/", "srv", "panel_app_basic.py">>] }

\* the value of an attribute that holds None / names no entry point
None == 0
NoEntry == [kind |-> "none", path |-> <<>>]

\* ------------------------------------------------------------ collaborators
sys_executable == <<"python">>

get_allowed_hosts == <<"*">>

\* get_frontend_logfile(name): the log file of that name in the log directory
get_frontend_logfile(name) == <<"/", "logs", name>>

\* pathlib.Path(__file__).parent / "panel_serve_render_fn.py"
render_fn_path == <<"/", "lightning_app", "frontend", "panel", "panel_serve_render_fn.py">>

\* str(port)
str_port(port) ==
    CASE port = 9000 -> "9000"
      [] port = 8080 -> "8080"
      [] OTHER       -> "0"

\* ---------------------------------------------------------- pure functions
\* ismethod as it would be if the check were callable(): functions rejected too
ismethod_callable(e) == e.kind \in {"function", "method"}

\* inspect.ismethod(server_entry_point)
ismethod(e) == e.kind = "method"

\* callable(server_entry_point)
callable(e) == e.kind \in {"function", "method"}

RECURSIVE DropDots(_)
DropDots(parts) ==
    IF parts = <<>> THEN <<>>
    ELSE IF Head(parts) \in {".", ""} THEN DropDots(Tail(parts))
         ELSE <<Head(parts)>> \o DropDots(Tail(parts))

\* str(pathlib.Path(p)): "." and empty components are dropped, ".." is
\* kept, a relative path stays relative, the empty path becomes "."
str_Path(p) ==
    LET q == IF p # <<>> /\ Head(p) = "/"
             THEN <<"/">> \o DropDots(Tail(p))
             ELSE DropDots(p)
    IN  IF q = <<>> THEN <<".">> ELSE q

\* serve_target as it would be if the entry point were always taken as a path
serve_target_always_path(e) == str_Path(e.path)

\* the serve target: path / abs_path of _get_popen_args
serve_target(e) ==
    IF callable(e) THEN render_fn_path ELSE str_Path(e.path)

\* autoreload_args with the test inverted
autoreload_args_inverted(autoreload) ==
    IF ~autoreload THEN << <<"--autoreload">> >> ELSE <<>>

\* the optional trailing flag of _get_popen_args
autoreload_args(autoreload) ==
    IF autoreload THEN << <<"--autoreload">> >> ELSE <<>>

\* PanelFrontend._get_popen_args(host, port); every argument is a sequence
\* of components, a plain string being a sequence of one
_get_popen_args(e, host, port, autoreload) ==
    << sys_executable,
       <<"-m">>,
       <<"panel">>,
       <<"serve">>,
       serve_target(e),
       <<"--port">>,
       <<str_port(port)>>,
       <<"--address">>,
       <<host>>,
       <<"--prefix">>,
       <<flow_name>>,
       <<"--allow-websocket-origin">>,
       get_allowed_hosts >>
    \o autoreload_args(autoreload)

\* ------------------------------------------------------------------ state
VARIABLES
    phase,               \* "new", "constructed", or "rejected" (__init__ raised)
    arg,                 \* the server_entry_point argument given to __init__
    attrs,               \* the attributes __init__ has assigned
    server_entry_point,  \* self.server_entry_point
    _process,            \* self._process: None or the pid of a spawned child
    _log_files,          \* self._log_files: stream name -> file handle
    files,               \* every file handle opened: [name, closed, closes],
                         \* closes counting the close() calls made on it
    procs,               \* every child spawned: [state, stdout, stderr]
    lastCall,            \* the most recent call and its outcome
    everStarted,         \* whether some start_server call has returned normally
    openFailed           \* whether opening a log file has ever raised

vars == <<phase, arg, attrs, server_entry_point, _process, _log_files,
          files, procs, lastCall, everStarted, openFailed>>

NoCall == [op |-> "none", result |-> "none", host |-> "", port |-> 0,
           local |-> FALSE, autoreload |-> FALSE, command |-> <<>>,
           liveBefore |-> 0, killed |-> 0,
           procsBefore |-> 0, handleBefore |-> 0, held |-> {}]

\* an empty dict
EmptyDict == <<>>

Range(f) == {f[k] : k \in DOMAIN f}

\* the handles that are open / the children that are alive
OpenFiles == {h \in DOMAIN files : ~files[h].closed}
Alive == {c \in DOMAIN procs : procs[c].state = "alive"}

Init ==
    /\ phase = "new"
    /\ arg \in EntryPoints
    /\ attrs = {}
    /\ server_entry_point = NoEntry
    /\ _process = None
    /\ _log_files = EmptyDict
    /\ files = <<>>
    /\ procs = <<>>
    /\ lastCall = NoCall
    /\ everStarted = FALSE
    /\ openFailed = FALSE

\* ------------------------------------------------------------ PanelFrontend
\* PanelFrontend.__init__(server_entry_point)
Construct ==
    /\ phase = "new"
    /\ IF ismethod(arg)
       THEN /\ phase' = "rejected"
            /\ lastCall' = [NoCall EXCEPT !.op = "init", !.result = "TypeError"]
            /\ UNCHANGED <<attrs, server_entry_point, _process, _log_files>>
       ELSE /\ phase' = "constructed"
            /\ server_entry_point' = arg
            /\ _process' = None
            /\ _log_files' = EmptyDict
            /\ attrs' = {"server_entry_point", "_process", "_log_files"}
            /\ lastCall' = [NoCall EXCEPT !.op = "init", !.result = "ok"]
    /\ UNCHANGED <<arg, files, procs, everStarted, openFailed>>

\* file_.close()
close(f) == [f EXCEPT !.closed = TRUE, !.closes = @ + 1]

\* closed_files as it would be if nothing were closed
closed_files_none(fs, lf) == fs

\* closed_files as it would be without the `if not file_.closed` test
closed_files_unguarded(fs, lf) ==
    [h \in DOMAIN fs |-> IF h \in Range(lf) THEN close(fs[h]) ELSE fs[h]]

\* PanelFrontend._close_log_files: the handles after closing those of lf
\* that are not closed yet
closed_files(fs, lf) ==
    [h \in DOMAIN fs |->
        IF h \in Range(lf) /\ ~fs[h].closed
        THEN close(fs[h])
        ELSE fs[h]]

\* cleared as it would be if the handle set were kept
cleared_kept(lf) == lf

\* PanelFrontend._close_log_files: self._log_files = {}
cleared(lf) == EmptyDict

\* a file opened for writing
opened(name) == [name |-> name, closed |-> FALSE, closes |-> 0]

\* log_files_dict with each log on the stream it is named after
log_files_dict_straight(herr, hout) == [stdout |-> hout, stderr |-> herr]

\* self._log_files as assigned by _open_log_files, given the handles of
\* error.log (herr) and output.log (hout)
log_files_dict(herr, hout) == [stdout |-> herr, stderr |-> hout]

\* the stream a child is given: the handle in the dict, or None (inherited)
stream(lf, s) == IF s \in DOMAIN lf THEN lf[s] ELSE None

\* subprocess.Popen(command, env=env, **self._log_files)
Popen(lf) == [state |-> "alive", stdout |-> stream(lf, "stdout"),
              stderr |-> stream(lf, "stderr")]

\* stored_handle as it would be if start_server dropped the new handle
stored_handle_dropped(old, new) == old

\* stored_handle as it would be if a handle already stored were kept
stored_handle_first(old, new) == IF old = None THEN new ELSE old

\* self._process = subprocess.Popen(...): the handle stored by start_server,
\* given the one stored before and the child just spawned
stored_handle(old, new) == new

\* handle_after_raise as it would be if a failed spawn reset the handle
handle_after_raise_reset(old) == None

\* self._process when subprocess.Popen raised: the assignment is not reached
handle_after_raise(old) == old

\* the points at which a start_server call may raise
FailPoints == {"none", "env", "open_err", "open_out", "spawn"}

\* whether start_server opens log files
opens_log_files(local) == ~local

\* PanelFrontend.start_server(host, port), in an execution context that is
\* local or not, with autoreload enabled or not, raising at `fail`
start_server(host, port, local, autoreload, fail) ==
    /\ phase = "constructed"
    /\ Len(procs) < MaxProcs
    /\ Len(files) + 2 <= MaxFiles
    /\ fail \in {"open_err", "open_out"} => opens_log_files(local)
    /\ LET call == [NoCall EXCEPT !.op = "start", !.host = host, !.port = port,
                                  !.local = local, !.autoreload = autoreload,
                                  !.liveBefore = Cardinality(Alive),
                                  !.procsBefore = Len(procs),
                                  !.handleBefore = _process]
           command == _get_popen_args(server_entry_point, host, port, autoreload)
           built == [call EXCEPT !.command = command]
           \* _open_log_files
           fs0 == closed_files(files, _log_files)
           fs1 == Append(fs0, opened(get_frontend_logfile("error.log")))
           fs2 == Append(fs1, opened(get_frontend_logfile("output.log")))
           lf2 == log_files_dict(Len(fs1), Len(fs2))
           fsN == IF opens_log_files(local) THEN fs2 ELSE files
           lfN == IF opens_log_files(local) THEN lf2 ELSE _log_files
           lf0 == cleared(_log_files)
       IN  CASE fail = "env" ->
                  /\ lastCall' = [call EXCEPT !.result = "EnvError"]
                  /\ UNCHANGED <<files, _log_files, procs, _process,
                                 everStarted, openFailed>>
             [] fail = "open_err" ->
                  /\ files' = fs0
                  /\ _log_files' = lf0
                  /\ lastCall' = [built EXCEPT !.result = "OpenError"]
                  /\ openFailed' = TRUE
                  /\ UNCHANGED <<procs, _process, everStarted>>
             [] fail = "open_out" ->
                  /\ files' = fs1
                  /\ _log_files' = lf0
                  /\ lastCall' = [built EXCEPT !.result = "OpenError"]
                  /\ openFailed' = TRUE
                  /\ UNCHANGED <<procs, _process, everStarted>>
             [] fail = "spawn" ->
                  /\ files' = fsN
                  /\ _log_files' = lfN
                  /\ lastCall' = [built EXCEPT !.result = "SpawnError"]
                  /\ _process' = handle_after_raise(_process)
                  /\ UNCHANGED <<procs, everStarted, openFailed>>
             [] OTHER ->
                  /\ files' = fsN
                  /\ _log_files' = lfN
                  /\ procs' = Append(procs, Popen(lfN))
                  /\ _process' = stored_handle(_process, Len(procs) + 1)
                  /\ lastCall' = [built EXCEPT !.result = "ok"]
                  /\ everStarted' = TRUE
                  /\ UNCHANGED openFailed
    /\ UNCHANGED <<phase, arg, attrs, server_entry_point>>

\* not_running with the test inverted
not_running_inverted(p) == p # None

\* the guard of stop_server: no process handle is stored
not_running(p) == p = None

\* kill as it would be if every child of the launcher were killed
kill_all(ps, p) ==
    [c \in DOMAIN ps |->
        IF ps[c].state = "alive"
        THEN [ps[c] EXCEPT !.state = "killed"]
        ELSE ps[c]]

\* Popen.kill(): a child that is still alive is killed, one that has
\* already ended is left as it is
kill(ps, p) ==
    [c \in DOMAIN ps |->
        IF c = p /\ ps[c].state = "alive"
        THEN [ps[c] EXCEPT !.state = "killed"]
        ELSE ps[c]]

\* PanelFrontend.stop_server()
stop_server ==
    /\ phase = "constructed"
    /\ LET call == [NoCall EXCEPT !.op = "stop",
                                  !.liveBefore = Cardinality(Alive),
                                  !.procsBefore = Len(procs),
                                  !.handleBefore = _process]
       IN  IF not_running(_process)
           THEN /\ lastCall' = [call EXCEPT !.result = "RuntimeError"]
                /\ UNCHANGED <<procs, files, _log_files>>
           ELSE /\ procs' = kill(procs, _process)
                /\ files' = closed_files(files, _log_files)
                /\ _log_files' = cleared(_log_files)
                /\ lastCall' = [call EXCEPT !.result = "ok",
                                  !.killed = IF _process \in Alive
                                             THEN _process ELSE 0]
    /\ UNCHANGED <<phase, arg, attrs, server_entry_point, _process,
                   everStarted, openFailed>>

\* --------------------------------------------------------- the environment
\* a child process ends on its own; the launcher does not notice
ChildExit(c) ==
    /\ c \in Alive
    /\ procs' = [procs EXCEPT ![c].state = "exited"]
    /\ UNCHANGED <<phase, arg, attrs, server_entry_point, _process,
                   _log_files, files, lastCall, everStarted, openFailed>>

\* the handle of error.log that _open_log_files held only in a local
\* variable when opening output.log raised is closed when the interpreter
\* collects it
Finalize(h) ==
    /\ h \in OpenFiles
    /\ h \notin Range(_log_files)
    /\ files' = [files EXCEPT ![h] = close(@)]
    /\ UNCHANGED <<phase, arg, attrs, server_entry_point, _process,
                   _log_files, procs, lastCall, everStarted, openFailed>>

\* start_server in every execution context and with every outcome
StartServer ==
    \E local \in BOOLEAN, autoreload \in BOOLEAN, fail \in FailPoints :
        start_server(ExampleHost, ExamplePort, local, autoreload, fail)

Exit == \E c \in DOMAIN procs : ChildExit(c)

Collect == \E h \in DOMAIN files : Finalize(h)

Next ==
    \/ Construct
    \/ StartServer
    \/ stop_server
    \/ Exit
    \/ Collect

Spec == Init /\ [][Next]_vars

\* ------------------------------------------------- the command of a start
\* start_server with every host and port, in every execution context, the
\* call returning normally
StartWithArgs ==
    \E host \in Hosts, port \in Ports, local \in BOOLEAN,
       autoreload \in BOOLEAN :
        start_server(host, port, local, autoreload, "none")

NextArgs ==
    \/ Construct
    \/ StartWithArgs

ArgsSpec == Init /\ [][NextArgs]_vars

\* ------------------------------------------------ _close_log_files alone
\* The states a direct call of _close_log_files may start from: any handles,
\* open or already closed, and any handle set over them.
LogNames == {get_frontend_logfile("error.log"), get_frontend_logfile("output.log")}

FileStates ==
    {[name |-> n, closed |-> b, closes |-> IF b THEN 1 ELSE 0] :
        n \in LogNames, b \in BOOLEAN}

HandleLists == UNION {[1..n -> FileStates] : n \in 0..MaxHandles}

Dicts(n) ==
    {EmptyDict} \cup {log_files_dict(a, b) : a \in 1..n, b \in 1..n}

InitClose ==
    /\ phase = "constructed"
    /\ arg \in {e \in EntryPoints : e.kind = "function"}
    /\ attrs = {"server_entry_point", "_process", "_log_files"}
    /\ server_entry_point = arg
    /\ _process = None
    /\ files \in HandleLists
    /\ _log_files \in Dicts(Len(files))
    /\ procs = <<>>
    /\ lastCall = NoCall
    /\ everStarted = FALSE
    /\ openFailed = FALSE

\* PanelFrontend._close_log_files()
_close_log_files ==
    /\ phase = "constructed"
    /\ files' = closed_files(files, _log_files)
    /\ _log_files' = cleared(_log_files)
    /\ lastCall' = [NoCall EXCEPT !.op = "close", !.result = "ok",
                                  !.held = Range(_log_files)]
    /\ UNCHANGED <<phase, arg, attrs, server_entry_point, _process, procs,
                   everStarted, openFailed>>

NextClose == _close_log_files

CloseSpec == InitClose /\ [][NextClose]_vars

\* ------------------------------------------------------------------ claims
\* the calls whose outcome the state shows
Stopped == lastCall.op = "stop"
Started == lastCall.op = "start"
\* a start_server call that got as far as building its command
Built == Started /\ lastCall.command # <<>>
\* the handles of the launcher's handle set that are open
HeldOpen == Range(_log_files) \cap OpenFiles

\* C1: on a launcher on which no start_server() call has ever returned
\* normally, stop_server() raises RuntimeError (NotRunning) and kills no
\* process.
C1_StopBeforeStartRaises ==
    (Stopped /\ ~everStarted) =>
        /\ lastCall.result = "RuntimeError"
        /\ lastCall.killed = 0
        /\ Alive = {}

\* a stop that raised after a start that opened its log files and then
\* failed to spawn
C1_Witness ==
    /\ Stopped
    /\ ~everStarted
    /\ lastCall.result = "RuntimeError"
    /\ _log_files # EmptyDict

\* C2: whenever stop_server() is called while no child process is alive, it
\* raises RuntimeError (NotRunning); in start, stop, stop the second stop
\* raises.
C2_StopWithoutActiveChildRaises ==
    (Stopped /\ lastCall.liveBefore = 0) => lastCall.result = "RuntimeError"

\* C3: after any sequence of start_server() and stop_server() calls, at most
\* one child spawned by the launcher is alive.
C3_AtMostOneAlive == Cardinality(Alive) <= 1

\* C3, as amended: every live child is either the one the stored process
\* handle refers to or a child spawned before it (orphaned by a later start);
\* no child is alive while no handle is stored.
C3_AliveOwnedOrOrphaned == \A c \in Alive : c <= _process

\* two children alive, the older one orphaned
C3_Witness ==
    /\ Cardinality(Alive) = 2
    /\ _process = 2
    /\ 1 \in Alive

\* C4: whenever stop_server() returns normally, every log file handle opened
\* by the preceding starts is closed, the handle set is empty, and the child
\* of the most recent successful start is no longer alive.
C4_StopClosesAllAndKills ==
    (Stopped /\ lastCall.result = "ok") =>
        /\ OpenFiles = {}
        /\ _log_files = EmptyDict
        /\ _process \in DOMAIN procs
        /\ procs[_process].state # "alive"

\* C5: after every start_server() call that returns, the launcher holds
\* exactly two open log file handles if the call ran in a non-local context
\* and none if it ran in a local context.
C5_TwoHandlesOrNone ==
    (Started /\ lastCall.result = "ok") =>
        Cardinality(HeldOpen) = IF lastCall.local THEN 0 ELSE 2

\* C6: on every exit path from stop_server(), normal or raising, no log file
\* handle opened by the launcher remains open.
C6_StopLeavesNoHandleOpen == Stopped => OpenFiles = {}

\* C7: constructing the launcher with a bound method raises TypeError
\* (InvalidEntryPoint); with a function or a path it succeeds, with no
\* process handle and an empty log handle set.
C7_BoundMethodRejected ==
    /\ phase # "new" =>
          IF arg.kind = "method"
          THEN /\ phase = "rejected"
               /\ lastCall.result = "TypeError"
               /\ attrs = {}
          ELSE /\ phase = "constructed"
               /\ server_entry_point = arg
               /\ attrs = {"server_entry_point", "_process", "_log_files"}
    /\ lastCall.op = "init" /\ lastCall.result = "ok" =>
          /\ _process = None
          /\ _log_files = EmptyDict

\* the constructor has rejected a bound method
C7_Witness ==
    /\ arg.kind = "method"
    /\ phase = "rejected"
    /\ lastCall = [NoCall EXCEPT !.op = "init", !.result = "TypeError"]

\* the working directory of the launcher
cwd == <<"/", "home", "app">>

RECURSIVE Normalised(_, _)
\* a path's components with "." dropped and ".." taken with its parent
Normalised(done, rest) ==
    IF rest = <<>> THEN done
    ELSE IF Head(rest) \in {".", ""} THEN Normalised(done, Tail(rest))
    ELSE IF Head(rest) = ".."
         THEN Normalised(IF Len(done) > 1 THEN SubSeq(done, 1, Len(done) - 1)
                         ELSE done, Tail(rest))
    ELSE Normalised(Append(done, Head(rest)), Tail(rest))

\* the resolved absolute path of a path string
Resolved(p) ==
    IF p # <<>> /\ Head(p) = "/"
    THEN Normalised(<<"/">>, Tail(p))
    ELSE Normalised(cwd, p)

\* C8: for a path-based entry point the command built by
\* start_server(host, port) is <interpreter, -m, panel, serve, target, --port,
\* port, --address, host, --prefix, name, --allow-websocket-origin, origins>,
\* optionally followed by --autoreload, with the port and host of the call
\* and the resolved absolute path of the entry point as target.
C8_CommandOfPathEntry ==
    (Built /\ server_entry_point.kind = "path") =>
        LET c == lastCall.command
            expected == << <<"python">>, <<"-m">>, <<"panel">>, <<"serve">>,
                           Resolved(server_entry_point.path),
                           <<"--port">>,
                           <<IF lastCall.port = 9000 THEN "9000" ELSE "8080">>,
                           <<"--address">>, <<lastCall.host>>,
                           <<"--prefix">>, <<"root.lit_panel">>,
                           <<"--allow-websocket-origin">>, <<"*">> >>
        IN  \/ c = expected
            \/ c = Append(expected, <<"--autoreload">>)

\* C9: for a callable entry point the serve target is the fixed renderer
\* script path, whatever the host and port, and not the callable's own
\* file; for a path entry point the renderer script path is not used.
C9_RendererForCallable ==
    Built =>
        IF server_entry_point.kind = "function"
        THEN lastCall.command[5] = render_fn_path
        ELSE lastCall.command[5] # render_fn_path

\* a child serving a function through the renderer script
C9_Witness ==
    /\ Started
    /\ lastCall.result = "ok"
    /\ server_entry_point.kind = "function"
    /\ lastCall.command[5] = render_fn_path

\* the positions of --autoreload in a command
AutoreloadAt(c) == {i \in DOMAIN c : c[i] = <<"--autoreload">>}

\* C10: the command contains --autoreload exactly when autoreload is enabled
\* at that start call; when present it occurs once, as the last argument.
C10_AutoreloadFlag ==
    Built =>
        AutoreloadAt(lastCall.command) =
            IF lastCall.autoreload THEN {Len(lastCall.command)} ELSE {}

\* a command built with autoreload enabled
C10_Witness ==
    /\ Built
    /\ lastCall.autoreload
    /\ lastCall.command[Len(lastCall.command)] = <<"--autoreload">>

\* C11: every successful start_server() spawns exactly one child and leaves
\* the stored process handle referring to it, the most recently spawned one;
\* a stop_server() kills that child and no other.
C11_StartStoresNewChild ==
    /\ [](Started /\ lastCall.result = "ok" =>
            /\ Len(procs) = lastCall.procsBefore + 1
            /\ _process = Len(procs))
    /\ [](Stopped => lastCall.killed \in {0, Len(procs)})
    /\ [][\A c \in DOMAIN procs :
             (procs[c].state = "alive" /\ procs'[c].state = "killed") =>
                 /\ c = _process
                 /\ c = Len(procs)
                 /\ lastCall'.op = "stop"]_vars

\* a stop that killed the second child and left the first one alone
C11_Witness ==
    /\ Stopped
    /\ lastCall.result = "ok"
    /\ lastCall.killed = 2
    /\ _process = 2
    /\ procs[2].state = "killed"
    /\ procs[1].state = "alive"

\* C12: when start_server() is called again with no stop_server() in
\* between, the child of the earlier start stays alive after the later start
\* and no later launcher call kills it: a live child that is not the most
\* recently spawned one is never killed.
C12_OrphanNeverKilled ==
    [][\A c \in DOMAIN procs :
          (procs[c].state = "alive" /\ c < Len(procs')) =>
              procs'[c].state \in {"alive", "exited"}]_vars

\* the orphan is still alive after a second stop that found nothing to kill
C12_Witness ==
    /\ Stopped
    /\ lastCall.result = "ok"
    /\ lastCall.killed = 0
    /\ lastCall.liveBefore = 1
    /\ Len(procs) = 2
    /\ Alive = {1}

\* C13: when spawning the child fails, start_server() raises, no child is
\* created and the stored process handle is what it was before the call.
C13_FailedSpawnChangesNothing ==
    (Started /\ lastCall.result = "SpawnError") =>
        /\ Len(procs) = lastCall.procsBefore
        /\ _process = lastCall.handleBefore

\* a failed spawn that left the handle of the earlier, live child in place
C13_Witness ==
    /\ Started
    /\ lastCall.result = "SpawnError"
    /\ lastCall.handleBefore = 1
    /\ _process = 1
    /\ Alive = {1}

\* the children spawned with redirected streams, and a child's log handles
Redirected == {c \in DOMAIN procs : procs[c].stdout # None}
LogsOf(c) == {procs[c].stdout, procs[c].stderr}

\* C14: in every reachable state, the log file handles a live child was
\* started with are still open.
C14_LogsOpenWhileChildAlive ==
    \A c \in Alive \cap Redirected : LogsOf(c) \subseteq OpenFiles

\* C14, as amended: the log file handles a live child was started with are
\* open for as long as the launcher's handle set still holds them.
C14_HeldLogsOpenWhileChildAlive ==
    \A c \in Alive \cap Redirected :
        LogsOf(c) \cap Range(_log_files) \subseteq OpenFiles

\* two live children on the same, still open log files after a second start
C14_Witness ==
    /\ Alive = {1, 2}
    /\ Redirected = {1, 2}
    /\ LogsOf(1) = Range(_log_files)
    /\ LogsOf(2) = Range(_log_files)
    /\ Range(_log_files) \subseteq OpenFiles

\* C15: in a non-local context the child's standard output goes to the file
\* named error.log and its standard error to the file named output.log.
C15_StreamsSwapped ==
    (Started /\ lastCall.result = "ok" /\ ~lastCall.local) =>
        /\ _process \in Redirected
        /\ files[procs[_process].stdout].name[3] = "error.log"
        /\ files[procs[_process].stderr].name[3] = "output.log"

\* a child started in a non-local context with error.log as its stdout
C15_Witness ==
    /\ Started
    /\ lastCall.result = "ok"
    /\ ~lastCall.local
    /\ procs[_process].state = "alive"
    /\ files[procs[_process].stdout].name = <<"/", "logs", "error.log">>

\* C16: as long as opening a log file has never failed, every log file
\* handle that is open is in the launcher's handle set, so at most two are
\* open.
C16_OpenHandlesTracked ==
    ~openFailed =>
        /\ OpenFiles \subseteq Range(_log_files)
        /\ Cardinality(OpenFiles) <= 2

\* a second non-local start has closed the first pair and holds the second
C16_Witness ==
    /\ ~openFailed
    /\ Len(files) = 4
    /\ OpenFiles = {3, 4}
    /\ Range(_log_files) = {3, 4}

\* C17: _close_log_files() never raises and is idempotent: it leaves every
\* handle it held closed and the handle set empty, it leaves alone the
\* handles that are already closed, and a second call changes nothing.
C17_CloseIdempotent ==
    /\ [](lastCall.op = "close" =>
            /\ lastCall.result = "ok"
            /\ _log_files = EmptyDict
            /\ \A h \in lastCall.held : files[h].closed)
    /\ [][/\ \A h \in DOMAIN files :
                (files[h].closed \/ h \notin Range(_log_files)) =>
                    files'[h] = files[h]
          /\ lastCall.op = "close" =>
                (files' = files /\ _log_files' = _log_files)]_vars

\* a call that held two distinct handles, now closed, next to one it did
\* not hold, still open
C17_Witness ==
    /\ lastCall.op = "close"
    /\ Cardinality(lastCall.held) = 2
    /\ \A h \in lastCall.held : files[h].closed
    /\ \E h \in DOMAIN files : h \notin lastCall.held /\ ~files[h].closed

====
